---- MODULE Spec2Model ----
(***************************************************************************)
(* Model of app.py (svg2stl): the upload handler upload_file, the          *)
(* converter convert_svg_to_stl, the executable locator find_openscad and  *)
(* the validator validate_svg, run by NumRequests concurrent requests over *)
(* one shared scratch directory.                                           *)
(*                                                                         *)
(* Text is a sequence of one-character strings; a generated identifier     *)
(* (str(uuid.uuid4())) is one token of such a sequence.                    *)
(***************************************************************************)
EXTENDS Integers, Sequences, FiniteSets, TLC

\* Number of upload requests served concurrently.
NumRequests == 2

Requests == 1..NumRequests

----------------------------------------------------------------------------
(* Text helpers, computed as Python computes them.                         *)

DOT == "."
SEP == "/"

\* str.lower() on the alphabet of the model
LowerChar(c) ==
  CASE c = "A" -> "a"
    [] c = "S" -> "s"
    [] c = "V" -> "v"
    [] c = "G" -> "g"
    [] c = "P" -> "p"
    [] OTHER -> c

Lower(s) == [i \in 1..Len(s) |-> LowerChar(s[i])]

Contains(s, c) == \E i \in 1..Len(s) : s[i] = c

\* index of the last occurrence of c in s, 0 when there is none
LastIndex(s, c) ==
  IF Contains(s, c) THEN CHOOSE i \in 1..Len(s) : s[i] = c /\ \A j \in (i+1)..Len(s) : s[j] # c
  ELSE 0

\* s.rsplit(c, 1)[1], for s containing c
RSplitLast(s, c) == SubSeq(s, LastIndex(s, c) + 1, Len(s))

\* allowed_extensions = {'svg'}
allowed_extensions == { <<"s", "v", "g">> }

\* the extension test of upload_file (line 143), without the dot test
ExtensionOnlyAllowed(name) ==
  Len(name) >= 3 /\ Lower(SubSeq(name, Len(name) - 2, Len(name))) \in allowed_extensions

\* '.' in file.filename and file.filename.rsplit('.', 1)[1].lower() in allowed_extensions
ExtensionAllowed(name) ==
  Contains(name, DOT) /\ Lower(RSplitLast(name, DOT)) \in allowed_extensions

\* characters werkzeug's secure_filename keeps: [A-Za-z0-9_.-]
SafeChars == {"a", "b", "A", "s", "v", "g", "S", "V", "G", "p", "n", "P", "t", "l", "_", ".", "-"}

RECURSIVE FilterSafe(_)
FilterSafe(s) ==
  IF s = <<>> THEN <<>>
  ELSE IF Head(s) \in SafeChars THEN <<Head(s)>> \o FilterSafe(Tail(s))
  ELSE FilterSafe(Tail(s))

\* blanks, once os.sep has been replaced by a blank
Blanks == {" ", SEP}

\* "_".join(s.split()) after path separators became spaces: runs of blanks
\* become one "_", leading and trailing blanks disappear
RECURSIVE JoinWords(_, _)
JoinWords(s, pendingGap) ==
  IF s = <<>> THEN <<>>
  ELSE IF Head(s) \in Blanks THEN JoinWords(Tail(s), TRUE)
  ELSE (IF pendingGap THEN <<"_">> ELSE <<>>) \o <<Head(s)>> \o JoinWords(Tail(s), FALSE)

RECURSIVE DropLeading(_, _)
DropLeading(s, cs) ==
  IF s # <<>> /\ Head(s) \in cs THEN DropLeading(Tail(s), cs) ELSE s

RECURSIVE DropTrailing(_, _)
DropTrailing(s, cs) ==
  IF s # <<>> /\ s[Len(s)] \in cs THEN DropTrailing(SubSeq(s, 1, Len(s) - 1), cs) ELSE s

\* str.strip(cs)
Strip(s, cs) == DropTrailing(DropLeading(s, cs), cs)

\* a leading gap is no gap: split() drops leading blanks
SkipBlanks(s) == DropLeading(s, Blanks)

\* werkzeug.utils.secure_filename
secure_filename(name) ==
  Strip(FilterSafe(JoinWords(SkipBlanks(name), FALSE)), {".", "_"})

\* os.path.splitext(name)[0]: cut at the last dot, unless that dot is one of
\* the leading dots of the name
SplitextRoot(name) ==
  LET k == LastIndex(name, DOT)
  IN IF k = 0 \/ (\A j \in 1..k : name[j] = DOT) THEN name ELSE SubSeq(name, 1, k - 1)

\* os.path.basename / os.path.dirname
Basename(p) == SubSeq(p, LastIndex(p, SEP) + 1, Len(p))
Dirname(p) == SubSeq(p, 1, LastIndex(p, SEP) - 1)

\* UPLOAD_FOLDER, one token
UPLOAD_FOLDER == <<"/tmp/uploads">>

\* os.path.join(UPLOAD_FOLDER, name)
JoinPath(dir, name) == dir \o <<SEP>> \o name

\* str(uuid.uuid4()): the k-th identifier generated by request r; identifiers
\* are unique, which is what the generator promises
Uuid4(r, k) == "uuid" \o ToString(r) \o "-" \o ToString(k)

\* a faulty variant: the upload name without its identifier prefix
UniqueFilenameNoId(u, name) == name

\* unique_filename = f"{uuid.uuid4()}_{filename}"
UniqueFilename(u, name) == <<u, "_">> \o name

\* stl_filename = f"{os.path.splitext(unique_filename)[0]}.stl"
StlFilename(unique) == SplitextRoot(unique) \o <<".", "s", "t", "l">>

\* scad_filename = f"temp_{uuid.uuid4()}.scad"
ScadFilename(u) == <<"t", "e", "m", "p", "_", u, ".", "s", "c", "a", "d">>

\* download_name=f"{os.path.splitext(filename)[0]}.stl"
DownloadName(name) == SplitextRoot(name) \o <<".", "s", "t", "l">>

----------------------------------------------------------------------------
(* Inputs and the environment.                                             *)

\* the filenames a client sends with the file part
Filenames ==
  { <<>>,
    <<"s", "v", "g">>,
    <<"a", ".", "p", "n", "g">>,
    <<"a", ".", "s", "v", "g", ".", "p", "n", "g">>,
    <<"a", ".", "s", "v", "g">>,
    <<"a", ".", "S", "v", "G">>,
    <<"/", ".", "s", "v", "g">> }

\* what the uploaded bytes are: an SVG document, well-formed XML with another
\* root element, text that is not XML
Docs == {"svg", "xml", "garbage"}

\* len(possible_paths)
NumCandidates == 6

\* what running [path, '--version'] does: exit 0, exit non-zero, no such
\* executable (an exception before any process exists), no answer in 5 s
ProbeOutcomes == {"ok", "nonzero", "notfound", "timeout"}

NoPath == <<>>
NoResult == [ok |-> FALSE, msg |-> "", detail |-> ""]
NoCompleted == [returncode |-> -1, stderr |-> "", stdout |-> ""]
NoResponse == [kind |-> "none", flash |-> "", msg |-> "", detail |-> "",
               file |-> NoPath, download_name |-> <<>>, mimetype |-> ""]

VARIABLES
  pc,              \* where each request is in upload_file / convert_svg_to_stl
  rawname,         \* file.filename
  filename,        \* local filename of upload_file
  unique_filename, \* local unique_filename of upload_file
  fs,              \* the scratch directory: path -> content
  cand,            \* position of find_openscad's loop in possible_paths
  openscad_path,   \* local openscad_path of convert_svg_to_stl (0: unset)
  scad_path,       \* local scad_path of convert_svg_to_stl
  completed,       \* local result of convert_svg_to_stl (the CompletedProcess)
  result,          \* (success, message) returned by convert_svg_to_stl
  resp,            \* the response of upload_file
  timer,           \* the threading.Timer of the request
  running,         \* subprocesses of the request that are alive
  sent,            \* history: the file part of the request as the client sent it
  log,             \* history: the converter's steps, in order
  probed,          \* history: a version probe started a process
  err,             \* history: str(e) of the unexpected exception raised
  descriptor,      \* history: the descriptor path that was written
  toolWrote,       \* history: the tool created the output file
  timedOut,        \* history: subprocess.run raised TimeoutExpired
  exitCode,        \* history: the exit code the tool returned with (-1: none)
  touched,         \* history: the paths the request wrote, read or deleted
  doc,             \* history: the document the client uploaded
  solo             \* history: what the converter returns to a request served alone

vars == <<pc, rawname, filename, unique_filename, fs, cand, openscad_path, scad_path,
          completed, result, resp, timer, running, sent, log, probed, err, descriptor,
          toolWrote, timedOut, exitCode, touched, doc, solo>>

locals == <<rawname, filename, unique_filename>>
convLocals == <<cand, openscad_path, scad_path, completed>>
history == <<sent, log, probed, err, descriptor, toolWrote, timedOut, exitCode, touched, doc, solo>>

\* os.path.exists(p)
Exists(p) == p \in DOMAIN fs

\* open(p, 'w').write(c), file.save(p), the tool's -o p
Write(f, p, c) == [q \in (DOMAIN f) \cup {p} |-> IF q = p THEN c ELSE f[q]]

\* os.remove(p)
Remove(f, p) == [q \in (DOMAIN f) \ {p} |-> f[q]]

\* if os.path.exists(p): os.remove(p)
RemoveIfExists(f, p) == IF p \in DOMAIN f THEN Remove(f, p) ELSE f

\* upload_path = os.path.join(UPLOAD_FOLDER, unique_filename)
upload_path(r) == JoinPath(UPLOAD_FOLDER, unique_filename[r])

\* stl_path = os.path.join(UPLOAD_FOLDER, stl_filename)
stl_path(r) == JoinPath(UPLOAD_FOLDER, StlFilename(unique_filename[r]))

Init ==
  /\ pc = [r \in Requests |-> "idle"]
  /\ rawname = [r \in Requests |-> <<>>]
  /\ filename = [r \in Requests |-> <<>>]
  /\ unique_filename = [r \in Requests |-> <<>>]
  /\ fs = <<>>
  /\ cand = [r \in Requests |-> 0]
  /\ openscad_path = [r \in Requests |-> 0]
  /\ scad_path = [r \in Requests |-> NoPath]
  /\ completed = [r \in Requests |-> NoCompleted]
  /\ result = [r \in Requests |-> NoResult]
  /\ resp = [r \in Requests |-> NoResponse]
  /\ timer = [r \in Requests |-> "none"]
  /\ running = [r \in Requests |-> {}]
  /\ sent = [r \in Requests |-> [hasFile |-> FALSE, name |-> <<>>]]
  /\ log = [r \in Requests |-> <<>>]
  /\ probed = [r \in Requests |-> FALSE]
  /\ err = [r \in Requests |-> ""]
  /\ descriptor = [r \in Requests |-> NoPath]
  /\ toolWrote = [r \in Requests |-> FALSE]
  /\ timedOut = [r \in Requests |-> FALSE]
  /\ exitCode = [r \in Requests |-> -1]
  /\ touched = [r \in Requests |-> {}]
  /\ doc = [r \in Requests |-> ""]
  /\ solo = [r \in Requests |-> NoResult]

\* flash(text); return redirect(url_for('index'))
Redirect(text, m, d) ==
  [kind |-> "redirect", flash |-> text, msg |-> m, detail |-> d,
   file |-> NoPath, download_name |-> <<>>, mimetype |-> ""]

\* upload_file, lines 132-145: the checks on the file part
Receive(r) ==
  /\ pc[r] = "idle"
  /\ \E hasFile \in BOOLEAN, name \in Filenames :
       /\ hasFile \/ name = <<>>
       /\ sent' = [sent EXCEPT ![r] = [hasFile |-> hasFile, name |-> name]]
       /\ IF ~hasFile \/ name = <<>>
          THEN /\ resp' = [resp EXCEPT ![r] = Redirect("No file selected", "", "")]
               /\ pc' = [pc EXCEPT ![r] = "done"]
               /\ UNCHANGED rawname
          ELSE IF ~ExtensionAllowed(name)
          THEN /\ resp' = [resp EXCEPT ![r] =
                    Redirect("Invalid file type. Please upload an SVG file.", "", "")]
               /\ pc' = [pc EXCEPT ![r] = "done"]
               /\ UNCHANGED rawname
          ELSE /\ rawname' = [rawname EXCEPT ![r] = name]
               /\ pc' = [pc EXCEPT ![r] = "save"]
               /\ UNCHANGED resp
  /\ UNCHANGED <<filename, unique_filename, fs, convLocals, result, timer, running,
                 log, probed, err, descriptor, toolWrote, timedOut, exitCode, touched,
                 doc, solo>>

\* the except clause of upload_file (lines 179-181)
UploadFailed(e) == Redirect("Upload failed", "", e)

\* upload_file, lines 151-154: name the upload and persist it
SaveUpload(r) ==
  /\ pc[r] = "save"
  /\ \E d \in Docs :
       LET name == secure_filename(rawname[r])
           unique == UniqueFilename(Uuid4(r, 1), name)
           path == JoinPath(UPLOAD_FOLDER, unique)
       IN /\ filename' = [filename EXCEPT ![r] = name]
          /\ unique_filename' = [unique_filename EXCEPT ![r] = unique]
          /\ fs' = Write(fs, path, <<d>>)
          /\ touched' = [touched EXCEPT ![r] = @ \cup {path}]
          /\ doc' = [doc EXCEPT ![r] = d]
  /\ cand' = [cand EXCEPT ![r] = 1]
  /\ pc' = [pc EXCEPT ![r] = "locate"]
  /\ UNCHANGED <<sent, rawname, openscad_path, scad_path, completed, result, resp, timer, running,
                 log, probed, err, descriptor, toolWrote, timedOut, exitCode, solo>>

\* file.save raises: nothing is persisted, the handler's except clause answers
SaveFails(r) ==
  /\ pc[r] = "save"
  /\ filename' = [filename EXCEPT ![r] = secure_filename(rawname[r])]
  /\ err' = [err EXCEPT ![r] = "OSError: save"]
  /\ resp' = [resp EXCEPT ![r] = UploadFailed("OSError: save")]
  /\ pc' = [pc EXCEPT ![r] = "done"]
  /\ UNCHANGED <<sent, rawname, unique_filename, fs, convLocals, result, timer, running,
                 log, probed, descriptor, toolWrote, timedOut, exitCode, touched, doc, solo>>

\* return False, "OpenSCAD not found. Please install OpenSCAD."
ToolNotFound == [ok |-> FALSE, msg |-> "OpenSCAD not found. Please install OpenSCAD.", detail |-> ""]

\* convert_svg_to_stl returns res: its locals are gone
Return(r, res) ==
  /\ result' = [result EXCEPT ![r] = res]
  /\ cand' = [cand EXCEPT ![r] = 0]
  /\ openscad_path' = [openscad_path EXCEPT ![r] = 0]
  /\ scad_path' = [scad_path EXCEPT ![r] = NoPath]
  /\ completed' = [completed EXCEPT ![r] = NoCompleted]
  /\ pc' = [pc EXCEPT ![r] = "cleanup"]

\* find_openscad, one turn of its loop (lines 29-36), and lines 63-66 of
\* convert_svg_to_stl once the loop has ended
Probe(r) ==
  /\ pc[r] = "locate"
  /\ cand[r] \in 1..NumCandidates
  /\ log' = [log EXCEPT ![r] = IF cand[r] = 1 THEN Append(@, "locate") ELSE @]
  /\ \E o \in ProbeOutcomes :
       /\ probed' = [probed EXCEPT ![r] = @ \/ o # "notfound"]
       /\ IF o = "ok"
          THEN /\ openscad_path' = [openscad_path EXCEPT ![r] = cand[r]]
               /\ cand' = [cand EXCEPT ![r] = 0]
               /\ pc' = [pc EXCEPT ![r] = "validate"]
               /\ UNCHANGED <<scad_path, completed, result, solo>>
          ELSE IF cand[r] < NumCandidates
          THEN /\ cand' = [cand EXCEPT ![r] = @ + 1]
               /\ UNCHANGED <<pc, openscad_path, scad_path, completed, result, solo>>
          ELSE /\ Return(r, ToolNotFound)
               /\ solo' = [solo EXCEPT ![r] = ToolNotFound]
  /\ UNCHANGED <<sent, locals, fs, resp, timer, running, err, descriptor, toolWrote, timedOut,
                 exitCode, touched, doc>>

\* validate_svg on the bytes c of a document (lines 41-46)
ValidateDoc(c) ==
  IF c = <<"svg">> THEN [ok |-> TRUE, msg |-> "Valid SVG", detail |-> ""]
  ELSE IF c = <<"xml">> THEN [ok |-> FALSE, msg |-> "File is not a valid SVG", detail |-> ""]
  ELSE [ok |-> FALSE, msg |-> "Invalid SVG file", detail |-> "ParseError"]

\* validate_svg(svg_path) (lines 38-48): ET.parse raises when the file is gone
validate_svg(f, p) ==
  IF p \in DOMAIN f THEN ValidateDoc(f[p])
  ELSE [ok |-> FALSE, msg |-> "Invalid SVG file", detail |-> "FileNotFoundError"]

\* convert_svg_to_stl, lines 69-71
Validate(r) ==
  /\ pc[r] = "validate"
  /\ log' = [log EXCEPT ![r] = Append(@, "validate")]
  /\ touched' = [touched EXCEPT ![r] = @ \cup {upload_path(r)}]
  /\ LET v == validate_svg(fs, upload_path(r))
         alone == ValidateDoc(<<doc[r]>>)
     IN /\ IF v.ok
           THEN /\ pc' = [pc EXCEPT ![r] = "write_scad"]
                /\ UNCHANGED <<convLocals, result>>
           ELSE Return(r, v)
        /\ solo' = [solo EXCEPT ![r] = IF alone.ok THEN @ ELSE alone]
  /\ UNCHANGED <<sent, locals, fs, resp, timer, running, probed, err, descriptor, toolWrote,
                 timedOut, exitCode, doc>>

\* create_openscad_file(svg_path, extrude_height) (lines 50-59)
create_openscad_file(svg, height) ==
  <<"linear_extrude", height, "import">> \o Basename(svg)

\* extrude_height = 5.0
extrude_height == "5.0"

\* return False, f"Conversion error: {str(e)}"
ConversionError(e) == [ok |-> FALSE, msg |-> "Conversion error", detail |-> e]

\* convert_svg_to_stl, lines 75-84: name and write the descriptor
WriteScad(r) ==
  /\ pc[r] = "write_scad"
  /\ LET temp_dir == Dirname(upload_path(r))
         path == JoinPath(temp_dir, ScadFilename(Uuid4(r, 2)))
     IN /\ scad_path' = [scad_path EXCEPT ![r] = path]
        /\ fs' = Write(fs, path, create_openscad_file(upload_path(r), extrude_height))
        /\ descriptor' = [descriptor EXCEPT ![r] = path]
        /\ touched' = [touched EXCEPT ![r] = @ \cup {path}]
  /\ log' = [log EXCEPT ![r] = Append(@, "write")]
  /\ pc' = [pc EXCEPT ![r] = "run"]
  /\ UNCHANGED <<sent, locals, cand, openscad_path, completed, result, resp, timer, running,
                 probed, err, toolWrote, timedOut, exitCode, doc, solo>>

\* open(scad_path, 'w') raises: caught by except Exception (lines 114-115)
WriteScadFails(r) ==
  /\ pc[r] = "write_scad"
  /\ err' = [err EXCEPT ![r] = "OSError: open"]
  /\ Return(r, ConversionError("OSError: open"))
  /\ solo' = [solo EXCEPT ![r] = ConversionError("OSError: open")]
  /\ UNCHANGED <<sent, locals, fs, resp, timer, running, log, probed, descriptor, toolWrote,
                 timedOut, exitCode, touched, doc>>

\* subprocess.run starts the tool (lines 87-100): cmd is built from
\* openscad_path, output_path and scad_path; openscad_path is not read again
RunTool(r) ==
  /\ pc[r] = "run"
  /\ openscad_path' = [openscad_path EXCEPT ![r] = 0]
  /\ running' = [running EXCEPT ![r] = @ \cup {"openscad"}]
  /\ log' = [log EXCEPT ![r] = Append(@, "run")]
  /\ pc' = [pc EXCEPT ![r] = "running"]
  /\ UNCHANGED <<sent, locals, fs, cand, scad_path, completed, result, resp, timer, probed,
                 err, descriptor, toolWrote, timedOut, exitCode, touched, doc, solo>>

\* subprocess.run cannot start the tool: caught by except Exception
RunToolFails(r) ==
  /\ pc[r] = "run"
  /\ err' = [err EXCEPT ![r] = "OSError: exec"]
  /\ Return(r, ConversionError("OSError: exec"))
  /\ solo' = [solo EXCEPT ![r] = ConversionError("OSError: exec")]
  /\ UNCHANGED <<sent, locals, fs, resp, timer, running, log, probed, descriptor, toolWrote,
                 timedOut, exitCode, touched, doc>>

\* return True, "Success"
Success == [ok |-> TRUE, msg |-> "Success", detail |-> ""]

\* return False, f"OpenSCAD error: {error_msg}"
OpenscadError(d) == [ok |-> FALSE, msg |-> "OpenSCAD error", detail |-> d]

\* a faulty variant: the timeout reported as a tool error
TimeoutAsToolError == OpenscadError("")

\* return False, "Conversion timed out. File may be too complex." (lines 112-113)
TimeoutResult ==
  [ok |-> FALSE, msg |-> "Conversion timed out. File may be too complex.", detail |-> ""]

\* a faulty variant: success decided by the exit code alone
ConvertOutcomeByExitCode(c, outputExists) ==
  IF c.returncode = 0 THEN Success
  ELSE OpenscadError(IF c.stderr # "" THEN c.stderr ELSE c.stdout)

\* lines 106-110: the verdict on a subprocess that returned
ConvertOutcome(c, outputExists) ==
  IF c.returncode = 0 /\ outputExists THEN Success
  ELSE OpenscadError(IF c.stderr # "" THEN c.stderr ELSE c.stdout)

\* the tool ends within the 60 s: subprocess.run returns a CompletedProcess.
\* The tool has read the descriptor and the document it imports, and may
\* have created the output file whatever its exit code is.
ToolReturns(r) ==
  /\ pc[r] = "running"
  /\ \E rc \in {0, 1}, writes \in BOOLEAN, se \in {"", "E"}, so \in {"", "O"} :
       /\ rc = 0 => (scad_path[r] \in DOMAIN fs /\ upload_path(r) \in DOMAIN fs)
       /\ fs' = IF writes THEN Write(fs, stl_path(r), <<"stl">>) ELSE fs
       /\ toolWrote' = [toolWrote EXCEPT ![r] = writes]
       /\ exitCode' = [exitCode EXCEPT ![r] = rc]
       /\ completed' = [completed EXCEPT ![r] =
                          [returncode |-> rc, stderr |-> se, stdout |-> so]]
       /\ touched' = [touched EXCEPT ![r] =
                        @ \cup {scad_path[r], upload_path(r)}
                          \cup (IF writes THEN {stl_path(r)} ELSE {})]
       /\ solo' = [solo EXCEPT ![r] =
                     IF rc = 0 /\ writes THEN Success
                     ELSE OpenscadError(IF se # "" THEN se ELSE so)]
  /\ running' = [running EXCEPT ![r] = @ \ {"openscad"}]
  /\ pc' = [pc EXCEPT ![r] = "after_run"]
  /\ UNCHANGED <<sent, locals, cand, openscad_path, scad_path, result, resp, timer, log, probed,
                 err, descriptor, timedOut, doc>>

\* the tool is still running after 60 s: subprocess.run kills it, waits for it
\* and raises TimeoutExpired, caught at lines 112-113
ToolTimeout(r) ==
  /\ pc[r] = "running"
  /\ \E writes \in BOOLEAN :
       /\ fs' = IF writes THEN Write(fs, stl_path(r), <<"stl">>) ELSE fs
       /\ toolWrote' = [toolWrote EXCEPT ![r] = writes]
       /\ touched' = [touched EXCEPT ![r] =
                        @ \cup {scad_path[r], upload_path(r)}
                          \cup (IF writes THEN {stl_path(r)} ELSE {})]
  /\ running' = [running EXCEPT ![r] = @ \ {"openscad"}]
  /\ timedOut' = [timedOut EXCEPT ![r] = TRUE]
  /\ Return(r, TimeoutResult)
  /\ solo' = [solo EXCEPT ![r] = TimeoutResult]
  /\ UNCHANGED <<sent, locals, resp, timer, log, probed, err, descriptor, exitCode, doc>>

\* a faulty variant: a failed run is tried again instead of being reported
FinishConvertRetry(r) ==
  /\ pc[r] = "after_run"
  /\ fs' = RemoveIfExists(fs, scad_path[r])
  /\ touched' = [touched EXCEPT ![r] = @ \cup {scad_path[r], stl_path(r)}]
  /\ IF ConvertOutcome(completed[r], stl_path(r) \in DOMAIN fs').ok
     THEN Return(r, Success)
     ELSE /\ pc' = [pc EXCEPT ![r] = "run"]
          /\ UNCHANGED <<convLocals, result>>
  /\ UNCHANGED <<sent, locals, resp, timer, running, log, probed, err, descriptor, toolWrote,
                 timedOut, exitCode, doc, solo>>

\* convert_svg_to_stl, lines 103-110: delete the descriptor, decide the verdict
FinishConvert(r) ==
  /\ pc[r] = "after_run"
  /\ fs' = RemoveIfExists(fs, scad_path[r])
  /\ touched' = [touched EXCEPT ![r] = @ \cup {scad_path[r], stl_path(r)}]
  /\ Return(r, ConvertOutcome(completed[r], stl_path(r) \in DOMAIN fs'))
  /\ UNCHANGED <<sent, locals, resp, timer, running, log, probed, err, descriptor, toolWrote,
                 timedOut, exitCode, doc, solo>>

\* a faulty variant: the upload is left in place
CleanUpUploadSkipped(f, p) == f

\* upload_file, lines 161-163
CleanUpUpload(f, p) == RemoveIfExists(f, p)

\* upload_file, lines 162-163, after the converter has returned
CleanupUpload(r) ==
  /\ pc[r] = "cleanup"
  /\ fs' = CleanUpUpload(fs, upload_path(r))
  /\ touched' = [touched EXCEPT ![r] = @ \cup {upload_path(r)}]
  /\ pc' = [pc EXCEPT ![r] = "respond"]
  /\ UNCHANGED <<sent, locals, convLocals, result, resp, timer, running, log, probed, err,
                 descriptor, toolWrote, timedOut, exitCode, doc, solo>>

\* a faulty variant: no deletion is scheduled
ScheduleDeletionForgotten(t) == t

\* threading.Timer(5.0, ...).start() (line 167)
ScheduleDeletion(t) == "armed"

\* upload_file, lines 165-167 and 175-177: the branch on the converter's verdict
Respond(r) ==
  /\ pc[r] = "respond"
  /\ touched' = [touched EXCEPT ![r] = @ \cup {stl_path(r)}]
  /\ IF result[r].ok /\ Exists(stl_path(r))
     THEN /\ timer' = [timer EXCEPT ![r] = ScheduleDeletion(@)]
          /\ pc' = [pc EXCEPT ![r] = "send"]
          /\ UNCHANGED resp
     ELSE /\ resp' = [resp EXCEPT ![r] =
                 Redirect("Conversion failed", result[r].msg, result[r].detail)]
          /\ pc' = [pc EXCEPT ![r] = "done"]
          /\ UNCHANGED timer
  /\ UNCHANGED <<sent, locals, fs, convLocals, result, running, log, probed, err, descriptor,
                 toolWrote, timedOut, exitCode, doc, solo>>

\* upload_file, lines 169-174: send_file finds the output file
SendFile(r) ==
  /\ pc[r] = "send"
  /\ Exists(stl_path(r))
  /\ resp' = [resp EXCEPT ![r] =
        [kind |-> "file", flash |-> "", msg |-> "", detail |-> "",
         file |-> stl_path(r), download_name |-> DownloadName(filename[r]),
         mimetype |-> "application/sla"]]
  /\ pc' = [pc EXCEPT ![r] = "done"]
  /\ UNCHANGED <<locals, fs, convLocals, result, timer, running, history>>

\* send_file raises (the file is gone or unreadable): lines 179-181
SendFileFails(r) ==
  /\ pc[r] = "send"
  /\ err' = [err EXCEPT ![r] = "OSError: send"]
  /\ resp' = [resp EXCEPT ![r] = UploadFailed("OSError: send")]
  /\ pc' = [pc EXCEPT ![r] = "done"]
  /\ UNCHANGED <<sent, locals, fs, convLocals, result, timer, running, log, probed, descriptor,
                 toolWrote, timedOut, exitCode, touched, doc, solo>>

\* the timer's callback, 5 s after it was started:
\* os.remove(stl_path) if os.path.exists(stl_path) else None
TimerFire(r) ==
  /\ timer[r] = "armed"
  /\ timer' = [timer EXCEPT ![r] = "fired"]
  /\ fs' = RemoveIfExists(fs, stl_path(r))
  /\ touched' = [touched EXCEPT ![r] = @ \cup {stl_path(r)}]
  /\ UNCHANGED <<sent, pc, locals, convLocals, result, resp, running, log, probed, err,
                 descriptor, toolWrote, timedOut, exitCode, doc, solo>>

Next ==
  \E r \in Requests :
    \/ Receive(r)
    \/ SaveUpload(r)
    \/ SaveFails(r)
    \/ Probe(r)
    \/ Validate(r)
    \/ WriteScad(r)
    \/ WriteScadFails(r)
    \/ RunTool(r)
    \/ RunToolFails(r)
    \/ ToolReturns(r)
    \/ ToolTimeout(r)
    \/ FinishConvert(r)
    \/ CleanupUpload(r)
    \/ Respond(r)
    \/ SendFile(r)
    \/ SendFileFails(r)
    \/ TimerFire(r)

Spec == Init /\ [][Next]_vars

\* the timer thread runs its callback once the delay has passed, and
\* subprocess.run ends: the tool returns or the 60 s pass
FairSpec ==
  /\ Spec
  /\ \A r \in Requests : WF_vars(TimerFire(r))
  /\ \A r \in Requests : WF_vars(ToolReturns(r) \/ ToolTimeout(r))

----------------------------------------------------------------------------
(* Properties.                                                             *)

\* convert_svg_to_stl has returned to upload_file
Returned(r) == pc[r] \in {"cleanup", "respond", "send", "done"} /\ log[r] # <<>>

\* C1: once convert_svg_to_stl has returned, the descriptor file it wrote no
\* longer exists, whatever the outcome was (success, tool failure, timeout,
\* exception while running the tool).
C1_DescriptorDeleted ==
  \A r \in Requests :
    (Returned(r) /\ descriptor[r] # NoPath) => descriptor[r] \notin DOMAIN fs

\* C2: when upload_file has answered a request whose upload was persisted,
\* the uploaded document is no longer in the scratch directory.
C2_UploadDeleted ==
  \A r \in Requests :
    (pc[r] = "done" /\ unique_filename[r] # <<>>) => upload_path(r) \notin DOMAIN fs

\* C2 happens: a request that persisted its upload ends after send_file raised
C2_Witness ==
  \E r \in Requests :
    /\ pc[r] = "done"
    /\ unique_filename[r] # <<>>
    /\ err[r] = "OSError: send"
    /\ resp[r].kind = "redirect"

\* C3: the converter reports success exactly when the tool returned within
\* the timeout with exit code 0 and the output file exists; and upload_file
\* answers with a file only when the converter reported success.
C3_SuccessIffExitZeroAndOutput ==
  \A r \in Requests :
    /\ (pc[r] = "cleanup" /\ log[r] # <<>>) =>
         (result[r].ok <=> (~timedOut[r] /\ exitCode[r] = 0 /\ stl_path(r) \in DOMAIN fs))
    /\ resp[r].kind = "file" => (Returned(r) /\ result[r].ok)

\* C3 happens: exit code 0 without an output file is reported as a failure
C3_Witness ==
  \E r \in Requests :
    /\ pc[r] = "cleanup"
    /\ exitCode[r] = 0
    /\ stl_path(r) \notin DOMAIN fs
    /\ ~result[r].ok
    /\ result[r].msg = "OpenSCAD error"

\* the answer of upload_file to a request served alone, from what the client
\* sent and what the environment did to this request
SoloAnswer(r) ==
  IF err[r] \in {"OSError: save", "OSError: send"}
  THEN Redirect("Upload failed", "", err[r])
  ELSE IF solo[r].ok
  THEN [kind |-> "file", flash |-> "", msg |-> "", detail |-> "",
        file |-> stl_path(r),
        download_name |-> SplitextRoot(filename[r]) \o <<".", "s", "t", "l">>,
        mimetype |-> "application/sla"]
  ELSE Redirect("Conversion failed", solo[r].msg, solo[r].detail)

\* C4: whatever the interleaving, the paths one request writes, reads or
\* deletes are touched by no other request, and each request gets from the
\* converter, and gives to its client, what it would when served alone.
C4_RequestsIsolated ==
  /\ \A r, s \in Requests : r # s => touched[r] \cap touched[s] = {}
  /\ \A r \in Requests : Returned(r) => result[r] = solo[r]
  /\ \A r \in Requests : (pc[r] = "done" /\ rawname[r] # <<>>) => resp[r] = SoloAnswer(r)

\* C4 happens: two requests with the same original filename both got a file
C4_Witness ==
  \E r, s \in Requests :
    /\ r # s
    /\ rawname[r] # <<>>
    /\ rawname[r] = rawname[s]
    /\ pc[r] = "done" /\ pc[s] = "done"
    /\ resp[r].kind = "file" /\ resp[s].kind = "file"
    /\ resp[r].file # resp[s].file

\* C5: after a request whose conversion succeeded has been answered, by the
\* file or by the failure of send_file, its output file is eventually gone.
C5_OutputEventuallyRemoved ==
  \A r \in Requests :
    (pc[r] = "done" /\ Returned(r) /\ result[r].ok) ~> (stl_path(r) \notin DOMAIN fs)

\* C5 happens: the conversion succeeded, send_file raised while the output
\* file was there, and the timer has deleted the file
C5_Witness ==
  \E r \in Requests :
    /\ pc[r] = "done"
    /\ result[r].ok
    /\ err[r] = "OSError: send"
    /\ timer[r] = "fired"
    /\ toolWrote[r]
    /\ stl_path(r) \notin DOMAIN fs

\* the names whose extension is svg in some mix of cases: text after the last
\* dot, and there is a dot
SvgSpellings ==
  { <<a, b, c>> : a \in {"s", "S"}, b \in {"v", "V"}, c \in {"g", "G"} }

HasSvgExtension(name) ==
  \E k \in 1..Len(name) :
    /\ name[k] = "."
    /\ \A j \in (k+1)..Len(name) : name[j] # "."
    /\ SubSeq(name, k + 1, Len(name)) \in SvgSpellings

\* C6: a request without a file part, with an empty filename or with a
\* filename whose extension is not svg is answered by a message and a
\* redirect; it writes nothing and the converter and the tool never run.
C6_RejectedUntouched ==
  \A r \in Requests :
    (pc[r] # "idle" /\ (~sent[r].hasFile \/ sent[r].name = <<>> \/ ~HasSvgExtension(sent[r].name)))
      => /\ pc[r] = "done"
         /\ resp[r].kind = "redirect"
         /\ resp[r].flash \in {"No file selected", "Invalid file type. Please upload an SVG file."}
         /\ touched[r] = {}
         /\ log[r] = <<>>
         /\ ~probed[r]
         /\ running[r] = {}
         /\ unique_filename[r] = <<>>

\* C6 happens: a file named svg, without a dot, was rejected
C6_Witness ==
  \E r \in Requests :
    /\ pc[r] = "done"
    /\ sent[r] = [hasFile |-> TRUE, name |-> <<"s", "v", "g">>]
    /\ resp[r].kind = "redirect"

\* C7: an unexpected error during the handler's sequence ends in a redirect
\* whose message carries no detail of the error.
C7_GenericFailureMessage ==
  \A r \in Requests :
    (pc[r] = "done" /\ err[r] # "") => (resp[r].kind = "redirect" /\ resp[r].detail = "")

\* the messages of the converter's other failures
OtherFailureMessages ==
  {"", "Success", "OpenSCAD error", "Conversion error", "File is not a valid SVG",
   "Invalid SVG file", "OpenSCAD not found. Please install OpenSCAD."}

\* C8: a wait for the tool can always end by the timeout; when it did, the
\* converter has returned a failure whose message is that of no other
\* outcome, and no subprocess of the request is alive.
C8_TimeoutOutcome ==
  \A r \in Requests :
    /\ pc[r] = "running" => ENABLED ToolTimeout(r)
    /\ timedOut[r] =>
         /\ Returned(r)
         /\ ~result[r].ok
         /\ result[r].msg \notin OtherFailureMessages
         /\ running[r] = {}
    /\ Returned(r) => running[r] = {}

\* C8 happens: a run timed out after the tool had begun its output
C8_Witness ==
  \E r \in Requests : timedOut[r] /\ pc[r] = "cleanup" /\ toolWrote[r]

IsPrefix(s, t) == Len(s) =< Len(t) /\ s = SubSeq(t, 1, Len(s))

StepOrder == <<"locate", "validate", "write", "run">>

\* C9 as stated: in the fixed order, one-shot, and a request whose tool is
\* unresolved has started no subprocess at all.
C9_NoSubprocessWhenUnresolved ==
  \A r \in Requests :
    /\ IsPrefix(log[r], StepOrder)
    /\ (Returned(r) /\ result[r].msg = "OpenSCAD not found. Please install OpenSCAD.")
         => (log[r] = <<"locate">> /\ descriptor[r] = NoPath /\ ~probed[r])

\* C9, amended: the converter's steps are locate, validate, write descriptor,
\* run tool, each at most once and in this order; with the tool unresolved it
\* returns 'not found' having only located (the version probes are the only
\* processes it may have started); with an invalid document it returns the
\* validator's reason having located and validated only.
C9_FixedOrderOneShot ==
  \A r \in Requests :
    /\ IsPrefix(log[r], StepOrder)
    /\ (Returned(r) /\ result[r].msg = "OpenSCAD not found. Please install OpenSCAD.")
         => (log[r] = <<"locate">> /\ descriptor[r] = NoPath)
    /\ (Returned(r) /\ result[r].msg \in {"File is not a valid SVG", "Invalid SVG file"})
         => (log[r] = <<"locate", "validate">> /\ descriptor[r] = NoPath)
    /\ descriptor[r] # NoPath => Len(log[r]) >= 3
    /\ pc[r] \in {"running", "after_run"} => log[r] = StepOrder

\* C9 happens: every candidate failed its probe, one of them after its process
\* had started, and the converter returned 'not found'
C9_Witness ==
  \E r \in Requests :
    /\ Returned(r)
    /\ result[r].msg = "OpenSCAD not found. Please install OpenSCAD."
    /\ probed[r]
    /\ log[r] = <<"locate">>

\* C10: when a request ends in a conversion failure, no output file of the
\* request is left in the scratch directory.
C10_NoOutputLeftAfterFailure ==
  \A r \in Requests :
    (pc[r] = "done" /\ Returned(r) /\ ~result[r].ok) => stl_path(r) \notin DOMAIN fs

TypeOK ==
  /\ \A r \in Requests : pc[r] \in {"idle", "save", "locate", "validate", "write_scad", "run",
                                   "running", "after_run", "cleanup", "respond", "send", "done"}
  /\ \A r \in Requests : timer[r] \in {"none", "armed", "fired"}

====
